---- MODULE Spec2Model ----
(***************************************************************************)
(* Session / transport / track orchestration of src/src/App.js.            *)
(*                                                                         *)
(* The component is single threaded: every action below is one run of the  *)
(* JavaScript event loop, from the event, acknowledgement or timer that    *)
(* resumes a handler up to the next await that needs a new event.  Promise *)
(* continuations that need no new event (microtasks) run before any other  *)
(* event is delivered, see MicrotaskPending.                               *)
(***************************************************************************)
EXTENDS Integers, Sequences, FiniteSets, TLC

\* ---------------------------------------------------------------- bounds
MaxSessions == 2      \* startBroadcast runs that reach the socket creation
MaxRC == 2            \* routerCapabilities notifications delivered in total
MaxAnn == 3           \* newProducer notifications delivered in total
MaxFail == 1          \* failing collaborator replies in total
MaxInputs == 5        \* sockets and notifications together, see Inputs

Local == "me"                       \* userId of the local participant
Users == {"me", "alice", "bob"}     \* participant ids the server announces
Kinds == {"video", "audio"}
\* the (participant, kind) pairs the server announces
Announced == {<<"me", "video">>, <<"alice", "video">>, <<"alice", "audio">>, <<"bob", "video">>}


VARIABLES
  isConnected,                  \* useState isConnected
  isBroadcasting,               \* useState isBroadcasting
  connectionInfo,               \* useState connectionInfo: TRUE when set
  participants,                 \* useState participants: user -> entry
  localStreamRef,               \* "none", "live" or "stopped" (tracks stopped)
  socketRef,                    \* 0 (null) or the id of the socket it holds
  sockets,                      \* ids of the sockets that are connected
  nSockets,                     \* sockets constructed so far
  deviceRef,                    \* 0 (null) or the id of the Device it holds
  loaded,                       \* ids of the Devices whose load() resolved
  producerTransportRef,         \* 0 (null) or a transport id
  consumerTransportRef,         \* 0 (null) or a transport id
  transports,                   \* every transport constructed, by id
  producersRef,                 \* kind -> transport the producer was made on
  consumersRef,                 \* ids of the registered consumers
  pendingProducersRef,          \* queued announcement ids
  creatingConsumerTransportRef, \* the in-progress flag
  gum,                          \* TRUE while a startBroadcast awaits getUserMedia
  rc,                           \* runs of the routerCapabilities handler
  calls,                        \* runs of handleNewProducer
  anns,                         \* announcements received, by id
  fails                         \* failing replies used

vars == <<isConnected, isBroadcasting, connectionInfo, participants, localStreamRef,
          socketRef, sockets, nSockets, deviceRef, loaded, producerTransportRef,
          consumerTransportRef, transports, producersRef, consumersRef,
          pendingProducersRef, creatingConsumerTransportRef, gum, rc, calls, anns,
          fails>>

uiVars == <<isConnected, isBroadcasting, connectionInfo>>
mediaVars == <<localStreamRef, producersRef>>
socketVars == <<socketRef, sockets, nSockets>>
deviceVars == <<deviceRef, loaded>>
consumeVars == <<participants, consumersRef>>

NoParticipants == [u \in {} |-> 0]
NoProducers == [k \in Kinds |-> 0]

Init ==
  /\ isConnected = FALSE
  /\ isBroadcasting = FALSE
  /\ connectionInfo = FALSE
  /\ participants = NoParticipants
  /\ localStreamRef = "none"
  /\ socketRef = 0
  /\ sockets = {}
  /\ nSockets = 0
  /\ deviceRef = 0
  /\ loaded = {}
  /\ producerTransportRef = 0
  /\ consumerTransportRef = 0
  /\ transports = <<>>
  /\ producersRef = NoProducers
  /\ consumersRef = {}
  /\ pendingProducersRef = <<>>
  /\ creatingConsumerTransportRef = FALSE
  /\ gum = FALSE
  /\ rc = <<>>
  /\ calls = <<>>
  /\ anns = <<>>
  /\ fails = 0

\* A continuation of the drain loop is runnable without a new event: the
\* handleNewProducer call it awaited returned without suspending.
\* The size of a run: its sockets, its newProducer notifications and its
\* routerCapabilities notifications, a repeated one counting twice.
Inputs == nSockets + Len(anns) + Len(rc) + (IF Len(rc) > 1 THEN Len(rc) - 1 ELSE 0)

MicrotaskPending == \E r \in DOMAIN rc : rc[r].pc = "drain"

\* An acknowledgement reaches its callback only while the socket the request
\* was emitted on is connected.
Acked(s) == s \in sockets

CloseTransport(ts, t) == IF t = 0 THEN ts ELSE [ts EXCEPT ![t].closed = TRUE]

\* ------------------------------------------------------------ lifecycle
connect ==
  /\ ~MicrotaskPending
  /\ ~isConnected
  /\ isConnected' = TRUE
  /\ connectionInfo' = TRUE
  /\ UNCHANGED <<isBroadcasting, participants, localStreamRef, socketVars, deviceVars,
                 producerTransportRef, consumerTransportRef, transports, producersRef,
                 consumersRef, pendingProducersRef, creatingConsumerTransportRef, gum,
                 rc, calls, anns, fails>>

disconnect ==
  /\ ~MicrotaskPending
  /\ isConnected
  /\ localStreamRef' = IF localStreamRef = "none" THEN "none" ELSE "stopped"
  /\ sockets' = sockets \ {socketRef}
  /\ socketRef' = 0
  /\ isConnected' = FALSE
  /\ isBroadcasting' = FALSE
  /\ connectionInfo' = FALSE
  /\ participants' = NoParticipants
  /\ UNCHANGED <<nSockets, deviceVars, producerTransportRef, consumerTransportRef,
                 transports, producersRef, consumersRef, pendingProducersRef,
                 creatingConsumerTransportRef, gum, rc, calls, anns, fails>>

\* startBroadcast up to its await of getUserMedia.  The model follows one
\* pending getUserMedia at a time.
startBroadcast ==
  /\ ~MicrotaskPending
  /\ isConnected /\ ~isBroadcasting
  /\ ~gum
  /\ nSockets < MaxSessions /\ Inputs < MaxInputs
  /\ gum' = TRUE
  /\ UNCHANGED <<uiVars, participants, localStreamRef, socketVars, deviceVars,
                 producerTransportRef, consumerTransportRef, transports, producersRef,
                 consumersRef, pendingProducersRef, creatingConsumerTransportRef,
                 rc, calls, anns, fails>>

\* getUserMedia resolved: the rest of startBroadcast.  connectionInfo is the
\* value the closure captured at the click, so a disconnect since then does
\* not stop it.
startBroadcastMedia ==
  /\ ~MicrotaskPending
  /\ gum
  /\ gum' = FALSE
  /\ localStreamRef' = "live"
  /\ nSockets' = nSockets + 1
  /\ socketRef' = nSockets + 1
  /\ sockets' = sockets \cup {nSockets + 1}
  /\ isBroadcasting' = TRUE
  /\ UNCHANGED <<isConnected, connectionInfo, participants, deviceVars,
                 producerTransportRef, consumerTransportRef, transports, producersRef,
                 consumersRef, pendingProducersRef, creatingConsumerTransportRef,
                 rc, calls, anns, fails>>

\* mutant of startBroadcastNoMedia: the broadcasting flag is set before the
\* media is acquired, so a rejection leaves it set
startBroadcastNoMedia_flagSet ==
  /\ gum
  /\ fails < MaxFail
  /\ fails' = fails + 1
  /\ gum' = FALSE
  /\ isBroadcasting' = TRUE
  /\ UNCHANGED <<isConnected, connectionInfo, participants, localStreamRef, socketRef,
                 sockets, nSockets, deviceRef, loaded, producerTransportRef,
                 consumerTransportRef, transports, producersRef, consumersRef,
                 pendingProducersRef, creatingConsumerTransportRef, rc, calls, anns>>

\* getUserMedia rejected: the catch block only logs.
startBroadcastNoMedia ==
  /\ ~MicrotaskPending
  /\ gum
  /\ fails < MaxFail
  /\ fails' = fails + 1
  /\ gum' = FALSE
  /\ UNCHANGED <<uiVars, participants, localStreamRef, socketVars, deviceVars,
                 producerTransportRef, consumerTransportRef, transports, producersRef,
                 consumersRef, pendingProducersRef, creatingConsumerTransportRef,
                 rc, calls, anns>>

stopBroadcast ==
  /\ ~MicrotaskPending
  /\ isBroadcasting
  /\ localStreamRef' = IF localStreamRef = "none" THEN "none" ELSE "stopped"
  /\ transports' = CloseTransport(CloseTransport(transports, producerTransportRef),
                                  consumerTransportRef)
  /\ sockets' = sockets \ {socketRef}
  /\ producersRef' = NoProducers
  /\ consumersRef' = {}
  /\ participants' = NoParticipants
  /\ isBroadcasting' = FALSE
  /\ UNCHANGED <<isConnected, connectionInfo, socketRef, nSockets, deviceVars,
                 producerTransportRef, consumerTransportRef, pendingProducersRef,
                 creatingConsumerTransportRef, gum, rc, calls, anns, fails>>

\* ------------------------------------------------- remote announcements
\* mutant of IsOwnStream: the own-stream test is missing
IsOwnStream_never(u) == FALSE

IsOwnStream(u) == u = Local

\* mutant of NeedsConsumerTransport: the in-progress flag is not consulted
NeedsConsumerTransport_noFlag == consumerTransportRef = 0

NeedsConsumerTransport == consumerTransportRef = 0 /\ ~creatingConsumerTransportRef

DeviceNotReady == deviceRef = 0

\* consumeStream up to the emit of the consume request: reading
\* socketRef.current.emit or deviceRef.current.rtpCapabilities throws when the
\* socket reference is null or the device is not loaded.
consumeStream == IF socketRef = 0 \/ deviceRef \notin loaded THEN "failed" ELSE "consumeReq"

\* handleNewProducer from its entry up to its first await of an event.
handleNewProducerEntry(u) ==
  IF IsOwnStream(u) THEN "skipped"
  ELSE IF NeedsConsumerTransport THEN (IF socketRef = 0 THEN "failed" ELSE "ctReq")
  ELSE IF creatingConsumerTransportRef THEN "wait"
  ELSE consumeStream

\* What the routerCapabilities run r sees of the handleNewProducer call it
\* awaits: the call threw, returned, or is suspended.
Settle(rcs, r, pc) ==
  IF r = 0 THEN rcs
  ELSE IF pc \in {"failed", "ctError"} THEN [rcs EXCEPT ![r].pc = "failed"]
  ELSE IF pc \in {"skipped", "consumeReq"}
       THEN [rcs EXCEPT ![r].pc = "drain", ![r].i = @ + 1]
  ELSE [rcs EXCEPT ![r].pc = "blocked"]

handleNewProducer(a, u, via, s, r) ==
  LET pc == handleNewProducerEntry(u)
      creates == ~IsOwnStream(u) /\ NeedsConsumerTransport
  IN /\ calls' = Append(calls, [ann |-> a, via |-> via, sess |-> s, owner |-> r,
                                pc |-> pc, creator |-> creates, sock |-> socketRef,
                                tr |-> 0])
     /\ creatingConsumerTransportRef' = (creatingConsumerTransportRef \/ creates)
     /\ rc' = Settle(rc, r, pc)

\* The newProducer handler.
newProducer(s, u, k) ==
  /\ ~MicrotaskPending
  /\ Acked(s)
  /\ Len(anns) < MaxAnn /\ Inputs < MaxInputs
  /\ <<u, k>> \in Announced
  /\ anns' = Append(anns, [user |-> u, kind |-> k, queued |-> DeviceNotReady])
  /\ IF DeviceNotReady
       THEN /\ pendingProducersRef' = Append(pendingProducersRef, Len(anns) + 1)
            /\ UNCHANGED <<calls, creatingConsumerTransportRef, rc>>
       ELSE /\ handleNewProducer(Len(anns) + 1, u, "live", s, 0)
            /\ UNCHANGED pendingProducersRef
  /\ UNCHANGED <<uiVars, mediaVars, socketVars, deviceVars, consumeVars,
                 producerTransportRef, consumerTransportRef, transports, gum, fails>>

\* The acknowledgement of createTransport {consuming}, without an error.
consumerTransportCreated(c) ==
  /\ ~MicrotaskPending
  /\ calls[c].pc = "ctReq"
  /\ Acked(calls[c].sock)
  /\ IF deviceRef \notin loaded
       THEN \* createRecvTransport throws inside the callback: the promise never settles
            /\ calls' = [calls EXCEPT ![c].pc = "hung"]
            /\ UNCHANGED <<transports, consumerTransportRef, creatingConsumerTransportRef, rc>>
       ELSE /\ transports' = Append(transports, [dir |-> "recv", closed |-> FALSE,
                                                 sess |-> calls[c].sess])
            /\ consumerTransportRef' = Len(transports) + 1
            /\ creatingConsumerTransportRef' = FALSE
            /\ calls' = [calls EXCEPT ![c].pc = consumeStream, ![c].sock = socketRef]
            /\ rc' = Settle(rc, calls[c].owner, consumeStream)
  /\ UNCHANGED <<uiVars, mediaVars, socketVars, deviceVars, consumeVars,
                 producerTransportRef, pendingProducersRef, gum, anns, fails>>

\* The acknowledgement of createTransport {consuming}, with an error: the
\* promise rejects and handleNewProducer throws at its await.
consumerTransportError(c) ==
  /\ ~MicrotaskPending
  /\ calls[c].pc = "ctReq"
  /\ Acked(calls[c].sock)
  /\ fails < MaxFail
  /\ fails' = fails + 1
  /\ calls' = [calls EXCEPT ![c].pc = "ctError"]
  /\ rc' = Settle(rc, calls[c].owner, "ctError")
  /\ UNCHANGED <<uiVars, mediaVars, socketVars, deviceVars, consumeVars,
                 producerTransportRef, consumerTransportRef, transports,
                 pendingProducersRef, creatingConsumerTransportRef, gum, anns>>

\* mutant of pollWake: the loop tests the flag the wrong way round and
\* leaves only while the creation is running
pollWake_inverted(c) ==
  /\ ~MicrotaskPending
  /\ calls[c].pc = "wait"
  /\ creatingConsumerTransportRef
  /\ calls' = [calls EXCEPT ![c].pc = consumeStream, ![c].sock = socketRef]
  /\ rc' = Settle(rc, calls[c].owner, consumeStream)
  /\ UNCHANGED <<uiVars, mediaVars, socketVars, deviceVars, consumeVars,
                 producerTransportRef, consumerTransportRef, transports,
                 pendingProducersRef, creatingConsumerTransportRef, gum, anns, fails>>

\* mutant of pollWake: the loop leaves without testing the flag
pollWake_noFlagTest(c) ==
  /\ ~MicrotaskPending
  /\ calls[c].pc = "wait"
  /\ calls' = [calls EXCEPT ![c].pc = consumeStream, ![c].sock = socketRef]
  /\ rc' = Settle(rc, calls[c].owner, consumeStream)
  /\ UNCHANGED <<uiVars, mediaVars, socketVars, deviceVars, consumeVars,
                 producerTransportRef, consumerTransportRef, transports,
                 pendingProducersRef, creatingConsumerTransportRef, gum, anns, fails>>

\* A timer of the polling loop fires and finds the flag clear.
pollWake(c) ==
  /\ ~MicrotaskPending
  /\ calls[c].pc = "wait"
  /\ ~creatingConsumerTransportRef
  /\ calls' = [calls EXCEPT ![c].pc = consumeStream, ![c].sock = socketRef]
  /\ rc' = Settle(rc, calls[c].owner, consumeStream)
  /\ UNCHANGED <<uiVars, mediaVars, socketVars, deviceVars, consumeVars,
                 producerTransportRef, consumerTransportRef, transports,
                 pendingProducersRef, creatingConsumerTransportRef, gum, anns, fails>>

TransportUsable(t) == t # 0 /\ ~transports[t].closed

\* The acknowledgement of consume, without an error, up to the await of
\* consumerTransportRef.current.consume.
consumeResponse(c) ==
  /\ ~MicrotaskPending
  /\ calls[c].pc = "consumeReq"
  /\ Acked(calls[c].sock)
  /\ calls' = IF TransportUsable(consumerTransportRef)
                THEN [calls EXCEPT ![c].pc = "consuming", ![c].tr = consumerTransportRef]
                ELSE [calls EXCEPT ![c].pc = "consumeFail", ![c].tr = consumerTransportRef]
  /\ UNCHANGED <<uiVars, mediaVars, socketVars, deviceVars, consumeVars,
                 producerTransportRef, consumerTransportRef, transports,
                 pendingProducersRef, creatingConsumerTransportRef, gum, rc, anns, fails>>

\* mutant of consumeError: the error branch does not return, so the rest of
\* the callback registers a consumer for the failed announcement
consumeError_noReturn(c) ==
  /\ ~MicrotaskPending
  /\ calls[c].pc = "consumeReq"
  /\ Acked(calls[c].sock)
  /\ fails < MaxFail
  /\ fails' = fails + 1
  /\ calls' = [calls EXCEPT ![c].pc = "consumeErr"]
  /\ consumersRef' = consumersRef \cup {c}
  /\ UNCHANGED <<uiVars, mediaVars, socketVars, deviceVars, participants,
                 producerTransportRef, consumerTransportRef, transports,
                 pendingProducersRef, creatingConsumerTransportRef, gum, rc, anns>>

\* The acknowledgement of consume, with an error: logged, nothing else.
consumeError(c) ==
  /\ ~MicrotaskPending
  /\ calls[c].pc = "consumeReq"
  /\ Acked(calls[c].sock)
  /\ fails < MaxFail
  /\ fails' = fails + 1
  /\ calls' = [calls EXCEPT ![c].pc = "consumeErr"]
  /\ UNCHANGED <<uiVars, mediaVars, socketVars, deviceVars, consumeVars,
                 producerTransportRef, consumerTransportRef, transports,
                 pendingProducersRef, creatingConsumerTransportRef, gum, rc, anns>>

\* setParticipants updater of consumeStream: the consumer of call c, a track
\* of kind k made from producer p, goes to participant u.
addTrack(ps, u, c, k, p) ==
  LET old == IF u \in DOMAIN ps THEN ps[u]
             ELSE [tracks |-> {}, videoProducerId |-> 0, audioProducerId |-> 0]
      new == [tracks |-> old.tracks \cup {c},
              videoProducerId |-> IF k = "video" THEN p ELSE old.videoProducerId,
              audioProducerId |-> IF k = "audio" THEN p ELSE old.audioProducerId]
  IN [x \in DOMAIN ps \cup {u} |-> IF x = u THEN new ELSE ps[x]]

\* consumerTransportRef.current.consume resolved: the rest of the callback.
consumed(c) ==
  /\ ~MicrotaskPending
  /\ calls[c].pc = "consuming"
  /\ TransportUsable(calls[c].tr)
  /\ consumersRef' = consumersRef \cup {c}
  /\ participants' = addTrack(participants, anns[calls[c].ann].user, c,
                              anns[calls[c].ann].kind, calls[c].ann)
  /\ calls' = [calls EXCEPT ![c].pc = "done"]
  /\ UNCHANGED <<uiVars, mediaVars, socketVars, deviceVars, producerTransportRef,
                 consumerTransportRef, transports, pendingProducersRef,
                 creatingConsumerTransportRef, gum, rc, anns, fails>>

\* consumerTransportRef.current.consume rejected: the callback throws.
consumeFailed(c) ==
  /\ ~MicrotaskPending
  /\ calls[c].pc = "consuming"
  /\ fails < MaxFail
  /\ fails' = fails + 1
  /\ calls' = [calls EXCEPT ![c].pc = "consumeFail"]
  /\ UNCHANGED <<uiVars, mediaVars, socketVars, deviceVars, consumeVars,
                 producerTransportRef, consumerTransportRef, transports,
                 pendingProducersRef, creatingConsumerTransportRef, gum, rc, anns>>

\* The peerDisconnected handler.
peerDisconnected(s, u) ==
  /\ ~MicrotaskPending
  /\ Acked(s)
  /\ u \in DOMAIN participants
  /\ participants' = [x \in DOMAIN participants \ {u} |-> participants[x]]
  /\ UNCHANGED <<uiVars, mediaVars, socketVars, deviceVars, consumersRef,
                 producerTransportRef, consumerTransportRef, transports,
                 pendingProducersRef, creatingConsumerTransportRef, gum, rc, calls,
                 anns, fails>>

\* -------------------------------------------- routerCapabilities handler
\* The handler up to its await of Device.load.
routerCapabilities(s) ==
  /\ ~MicrotaskPending
  /\ Acked(s)
  /\ Len(rc) < MaxRC /\ Inputs + (IF Len(rc) > 0 THEN 1 ELSE 0) < MaxInputs
  /\ deviceRef' = Len(rc) + 1
  /\ rc' = Append(rc, [sess |-> s, dev |-> Len(rc) + 1, pc |-> "load", sock |-> 0,
                       tr |-> 0, arr |-> <<>>, i |-> 0])
  /\ UNCHANGED <<uiVars, mediaVars, socketVars, loaded, consumeVars,
                 producerTransportRef, consumerTransportRef, transports,
                 pendingProducersRef, creatingConsumerTransportRef, gum, calls, anns,
                 fails>>

\* Device.load resolved: createProducerTransport up to the emit of
\* createTransport {producing}.
deviceLoaded(r) ==
  /\ ~MicrotaskPending
  /\ rc[r].pc = "load"
  /\ loaded' = loaded \cup {rc[r].dev}
  /\ rc' = IF socketRef = 0
             THEN [rc EXCEPT ![r].pc = "failed"]
             ELSE [rc EXCEPT ![r].pc = "ptReq", ![r].sock = socketRef]
  /\ UNCHANGED <<uiVars, mediaVars, socketVars, deviceRef, consumeVars,
                 producerTransportRef, consumerTransportRef, transports,
                 pendingProducersRef, creatingConsumerTransportRef, gum, calls, anns,
                 fails>>

\* Device.load rejected: the handler throws at its await.
deviceLoadFailed(r) ==
  /\ ~MicrotaskPending
  /\ rc[r].pc = "load"
  /\ fails < MaxFail
  /\ fails' = fails + 1
  /\ rc' = [rc EXCEPT ![r].pc = "failed"]
  /\ UNCHANGED <<uiVars, mediaVars, socketVars, deviceVars, consumeVars,
                 producerTransportRef, consumerTransportRef, transports,
                 pendingProducersRef, creatingConsumerTransportRef, gum, calls, anns>>

\* The acknowledgement of createTransport {producing}, without an error, up
\* to the await of produce for the video track.
producerTransportCreated(r) ==
  /\ ~MicrotaskPending
  /\ rc[r].pc = "ptReq"
  /\ Acked(rc[r].sock)
  /\ IF deviceRef \notin loaded
       THEN \* createSendTransport throws inside the callback: the promise never settles
            /\ rc' = [rc EXCEPT ![r].pc = "hung"]
            /\ UNCHANGED <<transports, producerTransportRef>>
       ELSE /\ transports' = Append(transports, [dir |-> "send", closed |-> FALSE,
                                                 sess |-> rc[r].sess])
            /\ producerTransportRef' = Len(transports) + 1
            /\ rc' = [rc EXCEPT ![r].pc = "prodVideo", ![r].tr = Len(transports) + 1]
  /\ UNCHANGED <<uiVars, mediaVars, socketVars, deviceVars, consumeVars,
                 consumerTransportRef, pendingProducersRef,
                 creatingConsumerTransportRef, gum, calls, anns, fails>>

\* The acknowledgement of createTransport {producing}, with an error: the
\* promise rejects and the handler throws at its await.
producerTransportError(r) ==
  /\ ~MicrotaskPending
  /\ rc[r].pc = "ptReq"
  /\ Acked(rc[r].sock)
  /\ fails < MaxFail
  /\ fails' = fails + 1
  /\ rc' = [rc EXCEPT ![r].pc = "failed"]
  /\ UNCHANGED <<uiVars, mediaVars, socketVars, deviceVars, consumeVars,
                 producerTransportRef, consumerTransportRef, transports,
                 pendingProducersRef, creatingConsumerTransportRef, gum, calls, anns>>

\* produce needs the transport open and the connectTransport / produce round
\* trips, which go over the socket socketRef holds when they are emitted.
ProduceCanResolve(t) == TransportUsable(t) /\ socketRef # 0 /\ Acked(socketRef)

\* produce resolved for the video track, up to the await of produce for the
\* audio track on the transport producerTransportRef holds now.
videoProduced(r) ==
  /\ ~MicrotaskPending
  /\ rc[r].pc = "prodVideo"
  /\ ProduceCanResolve(rc[r].tr)
  /\ producersRef' = [producersRef EXCEPT !["video"] = rc[r].tr]
  /\ rc' = IF TransportUsable(producerTransportRef)
             THEN [rc EXCEPT ![r].pc = "prodAudio", ![r].tr = producerTransportRef]
             ELSE [rc EXCEPT ![r].pc = "hung"]
  /\ UNCHANGED <<uiVars, localStreamRef, socketVars, deviceVars, consumeVars,
                 producerTransportRef, consumerTransportRef, transports,
                 pendingProducersRef, creatingConsumerTransportRef, gum, calls, anns,
                 fails>>

\* produce resolved for the audio track: refresh-producers is emitted,
\* createProducerTransport resolves and the handler reaches its drain loop.
audioProduced(r) ==
  /\ ~MicrotaskPending
  /\ rc[r].pc = "prodAudio"
  /\ ProduceCanResolve(rc[r].tr)
  /\ producersRef' = [producersRef EXCEPT !["audio"] = rc[r].tr]
  /\ rc' = IF Len(pendingProducersRef) > 0
             THEN [rc EXCEPT ![r].pc = "drain", ![r].arr = pendingProducersRef, ![r].i = 1]
             ELSE [rc EXCEPT ![r].pc = "done"]
  /\ UNCHANGED <<uiVars, localStreamRef, socketVars, deviceVars, consumeVars,
                 producerTransportRef, consumerTransportRef, transports,
                 pendingProducersRef, creatingConsumerTransportRef, gum, calls, anns,
                 fails>>

\* produce rejected: the callback throws and the promise of
\* createProducerTransport never settles.
produceFailed(r) ==
  /\ ~MicrotaskPending
  /\ rc[r].pc \in {"prodVideo", "prodAudio"}
  /\ fails < MaxFail
  /\ fails' = fails + 1
  /\ rc' = [rc EXCEPT ![r].pc = "hung"]
  /\ UNCHANGED <<uiVars, mediaVars, socketVars, deviceVars, consumeVars,
                 producerTransportRef, consumerTransportRef, transports,
                 pendingProducersRef, creatingConsumerTransportRef, gum, calls, anns>>

\* One turn of the drain loop: the next element of the array the loop
\* iterates goes to handleNewProducer; past the last one the queue is reset.
\* No element is pushed while a loop runs (deviceRef is set by then), so the
\* array the iterator holds is the sequence read when the loop started.
drain(r) ==
  /\ rc[r].pc = "drain"
  /\ IF rc[r].i > Len(rc[r].arr)
       THEN /\ pendingProducersRef' = <<>>
            /\ rc' = [rc EXCEPT ![r].pc = "done"]
            /\ UNCHANGED <<calls, creatingConsumerTransportRef>>
       ELSE /\ handleNewProducer(rc[r].arr[rc[r].i], anns[rc[r].arr[rc[r].i]].user,
                                 "drain", rc[r].sess, r)
            /\ UNCHANGED pendingProducersRef
  /\ UNCHANGED <<uiVars, mediaVars, socketVars, deviceVars, consumeVars,
                 producerTransportRef, consumerTransportRef, transports, gum, anns,
                 fails>>

\* ------------------------------------------------------- specification
Next ==
  \/ connect
  \/ disconnect
  \/ startBroadcast
  \/ startBroadcastMedia
  \/ startBroadcastNoMedia
  \/ stopBroadcast
  \/ \E s \in 1..MaxSessions : routerCapabilities(s)
  \/ \E r \in DOMAIN rc : deviceLoaded(r)
  \/ \E r \in DOMAIN rc : deviceLoadFailed(r)
  \/ \E r \in DOMAIN rc : producerTransportCreated(r)
  \/ \E r \in DOMAIN rc : producerTransportError(r)
  \/ \E r \in DOMAIN rc : videoProduced(r)
  \/ \E r \in DOMAIN rc : audioProduced(r)
  \/ \E r \in DOMAIN rc : produceFailed(r)
  \/ \E r \in DOMAIN rc : drain(r)
  \/ \E s \in 1..MaxSessions, u \in Users, k \in Kinds : newProducer(s, u, k)
  \/ \E c \in DOMAIN calls : consumerTransportCreated(c)
  \/ \E c \in DOMAIN calls : consumerTransportError(c)
  \/ \E c \in DOMAIN calls : pollWake(c)
  \/ \E c \in DOMAIN calls : consumeResponse(c)
  \/ \E c \in DOMAIN calls : consumeError(c)
  \/ \E c \in DOMAIN calls : consumed(c)
  \/ \E c \in DOMAIN calls : consumeFailed(c)
  \/ \E s \in 1..MaxSessions, u \in Users : peerDisconnected(s, u)

Spec == Init /\ [][Next]_vars

\* ---------------------------------------------------------------- claims
RecvTransports(s) ==
  {t \in DOMAIN transports : transports[t].dir = "recv" /\ transports[t].sess = s}

Creators(s) == {c \in DOMAIN calls : calls[c].sess = s /\ calls[c].creator}

WentOnToConsume(c) ==
  calls[c].pc \in {"consumeReq", "consumeErr", "consuming", "consumeFail", "done"}

InboundTransportOnce(s) ==
  /\ Cardinality(Creators(s)) <= 1
  /\ Cardinality(RecvTransports(s)) <= 1
  /\ \A c \in DOMAIN calls :
       calls[c].sess = s /\ WentOnToConsume(c) =>
         /\ Cardinality(RecvTransports(s)) = 1
         /\ calls[c].tr # 0 => calls[c].tr \in RecvTransports(s)

\* C1: within one broadcast session, whatever the number and interleaving of
\* the newProducer announcements, createConsumerTransport is started at most
\* once, at most one inbound transport is constructed, and every
\* handleNewProducer call that goes on to consume does so when exactly one
\* has been constructed and with that transport.
C1_OneInboundTransport == nSockets = 1 => InboundTransportOnce(1)

\* C1 witness: in one session an announcement started the creation, a later
\* one consumes with the same transport, and a third one, which arrived
\* while the creation was in progress, still waits in the polling loop.
C1_Witness ==
  /\ nSockets = 1
  /\ \E c1, c2, c3 \in DOMAIN calls :
       /\ calls[c1].creator /\ calls[c1].tr # 0
       /\ c2 > c1 /\ ~calls[c2].creator /\ calls[c2].tr = calls[c1].tr
       /\ calls[c3].pc = "wait"

\* C2: once the createTransport round trip of the inbound transport has
\* returned an error, the in-progress flag is set only while a fresh creation
\* attempt is in flight, and no inbound transport handle is cached by the
\* failed attempt.
C2_ErrorClearsCreationFlag ==
  (\E c \in DOMAIN calls : calls[c].pc = "ctError") =>
    (creatingConsumerTransportRef => \E c \in DOMAIN calls : calls[c].pc = "ctReq")

CallsOf(a) == {c \in DOMAIN calls : calls[c].ann = a}

Queued == {a \in DOMAIN anns : anns[a].queued}

\* C3: the queued announcements are passed to handleNewProducer in arrival
\* order, each at most once, and once an announcement that was not queued
\* has been passed to handleNewProducer every queued one has been passed.
C3_QueueDrainedFifoBeforeLive ==
  /\ \A a \in Queued : Cardinality(CallsOf(a)) <= 1
  /\ \A c1, c2 \in DOMAIN calls :
       c1 < c2 /\ calls[c1].ann \in Queued /\ calls[c2].ann \in Queued
         => calls[c1].ann < calls[c2].ann
  /\ (\E c \in DOMAIN calls : calls[c].ann \notin Queued)
       => \A a \in Queued : CallsOf(a) # {}

\* C4: no announcement is handled twice, and once a run of the
\* routerCapabilities handler has ended, by returning or by throwing, every
\* queued announcement has been handled: none is dropped.
C4_HandledExactlyOnce ==
  /\ \A a \in DOMAIN anns : Cardinality(CallsOf(a)) <= 1
  /\ (\E r \in DOMAIN rc : rc[r].pc \in {"done", "failed"})
       => \A a \in Queued : Cardinality(CallsOf(a)) = 1

TracksOfKind(u, k) == {c \in participants[u].tracks : anns[calls[c].ann].kind = k}

SlotOf(u, k) ==
  IF k = "video" THEN participants[u].videoProducerId ELSE participants[u].audioProducerId

\* C5: the stream of every participant holds at most one track of each media
\* kind, and that track comes from the producer recorded for the kind.
C5_OneTrackPerKind ==
  \A u \in DOMAIN participants : \A k \in Kinds :
    /\ Cardinality(TracksOfKind(u, k)) <= 1
    /\ \A c \in TracksOfKind(u, k) : calls[c].ann = SlotOf(u, k)

OwnCalls == {c \in DOMAIN calls : anns[calls[c].ann].user = Local}

\* C6: an announcement of the local participant's own producer is skipped,
\* live or drained: it starts no inbound transport creation, emits no consume
\* request, registers no consumer and creates no Participant entry.
C6_OwnAnnouncementIgnored ==
  /\ Local \notin DOMAIN participants
  /\ \A c \in OwnCalls :
       /\ calls[c].pc = "skipped"
       /\ ~calls[c].creator
       /\ c \notin consumersRef

\* C6 witness: own announcements were handled live and drained from the
\* queue while a remote participant is being consumed.
C6_Witness ==
  /\ \E c \in OwnCalls : calls[c].owner = 0
  /\ \E c \in OwnCalls : calls[c].owner # 0
  /\ \E c \in DOMAIN calls : calls[c].pc = "done"

ConnectedOnly ==
  /\ producerTransportRef = 0
  /\ consumerTransportRef = 0
  /\ deviceRef = 0
  /\ pendingProducersRef = <<>>
  /\ ~creatingConsumerTransportRef
  /\ producersRef = NoProducers
  /\ consumersRef = {}
  /\ participants = NoParticipants

\* C7: stopBroadcast leaves the orchestration state equal to that of a
\* session that has only connected.
C7_StopBroadcastResets == [][stopBroadcast => ConnectedOnly']_vars

SendTransportsAlive(s) ==
  {t \in DOMAIN transports :
     transports[t].dir = "send" /\ transports[t].sess = s /\ ~transports[t].closed}

SendTransportsUnderConstruction(s) ==
  {r \in DOMAIN rc : rc[r].sess = s /\ rc[r].pc = "ptReq" /\ Acked(rc[r].sock)}

\* C8: in every session at most one outbound transport is under
\* construction or alive.
C8_OneOutboundTransport ==
  \A s \in 1..nSockets :
    Cardinality(SendTransportsAlive(s)) + Cardinality(SendTransportsUnderConstruction(s)) <= 1

\* C9: the session is Broadcasting only after the device was loaded, the
\* outbound transport was created and the local producers were published.
C9_BroadcastingAfterNegotiation ==
  isBroadcasting =>
    /\ deviceRef \in loaded
    /\ TransportUsable(producerTransportRef)
    /\ \A k \in Kinds : producersRef[k] # 0

\* C10: disconnect while Broadcasting releases the local media, closes both
\* transports, empties the producer set, the consumer registry and the
\* participants, closes the signaling channel and clears the credentials.
C10_DisconnectWhileBroadcasting ==
  [][disconnect /\ isBroadcasting =>
       /\ ~isConnected' /\ ~isBroadcasting' /\ ~connectionInfo'
       /\ localStreamRef' # "live"
       /\ sockets' = {}
       /\ \A t \in DOMAIN transports' : transports'[t].closed
       /\ producersRef' = NoProducers
       /\ consumersRef' = {}
       /\ participants' = NoParticipants]_vars

NoRegistryAdditions ==
  /\ consumersRef' \subseteq consumersRef
  /\ DOMAIN participants' \subseteq DOMAIN participants
  /\ \A u \in DOMAIN participants' : participants'[u].tracks \subseteq participants[u].tracks
  /\ \A k \in Kinds : producersRef'[k] # 0 => producersRef'[k] = producersRef[k]
  /\ Len(transports') = Len(transports)

\* C11: while the session is torn down (after stopBroadcast or disconnect and
\* before the next startBroadcast has set the broadcasting flag) no step adds
\* a consumer, a producer, a participant entry, a track or a transport.
C11_NoAdditionsAfterTeardown ==
  [][~isBroadcasting /\ ~gum => NoRegistryAdditions]_vars

UserOf(cs, c) == anns[cs[c].ann].user

\* the call c emits its consume request in this step
IssuesConsume(c) ==
  /\ calls'[c].pc = "consumeReq"
  /\ c \in DOMAIN calls => calls[c].pc # "consumeReq"

\* C12: among the announcements handled live, a consume request is never
\* issued for an announcement while an earlier announcement of the same
\* participant still waits to issue its own.
C12_ConsumeInArrivalOrder ==
  [][\A c \in DOMAIN calls' :
       IssuesConsume(c) /\ calls'[c].owner = 0 =>
         ~\E c0 \in DOMAIN calls :
            /\ calls[c0].owner = 0
            /\ calls[c0].ann < calls'[c].ann
            /\ anns'[calls[c0].ann].user = anns'[calls'[c].ann].user
            /\ calls'[c0].pc \in {"ctReq", "wait"}]_vars

NegotiationFails ==
  \E r \in DOMAIN rc : deviceLoadFailed(r) \/ producerTransportError(r)

\* C13: when capability loading or the outbound createTransport round trip
\* fails, the session is not Broadcasting afterwards and no outbound
\* transport handle or producer remains.
C13_FailedNegotiationAborts ==
  [][NegotiationFails =>
       /\ ~isBroadcasting'
       /\ producerTransportRef' = 0
       /\ producersRef' = NoProducers]_vars

\* C14: when getUserMedia rejects, startBroadcast changes nothing: the
\* broadcasting flag stays false, no socket is constructed or connected, no
\* handler has run and no transport exists that did not exist before.
C14_NoMediaLeavesConnected ==
  [][startBroadcastNoMedia =>
       /\ ~isBroadcasting'
       /\ isConnected' = isConnected
       /\ nSockets' = nSockets /\ sockets' = sockets /\ socketRef' = socketRef
       /\ localStreamRef' = localStreamRef
       /\ transports' = transports
       /\ rc' = rc /\ calls' = calls /\ anns' = anns]_vars

\* C14 witness: the first startBroadcast of a connected session has failed
\* on getUserMedia: the session is connected, not broadcasting, and has no
\* socket.
C14_Witness ==
  /\ fails = 1 /\ nSockets = 0 /\ ~gum
  /\ isConnected /\ ~isBroadcasting /\ socketRef = 0

\* C16: as long as no Device.load has finished, every announcement received
\* is in the pending queue and none has reached handleNewProducer: no
\* inbound transport creation was started and no consume request issued.
C16_QueuedUntilNegotiated ==
  loaded = {} =>
    /\ calls = <<>>
    /\ ~creatingConsumerTransportRef
    /\ \A a \in DOMAIN anns : anns[a].queued

\* C17: a consume acknowledgement carrying an error changes only the call it
\* belongs to: the consumer registry, the participants, the inbound
\* transport, the creation flag, every other call and the drain loops are
\* left as they were.
C17_ConsumeErrorIsolated ==
  [][\A c \in DOMAIN calls :
       consumeError(c) =>
         /\ consumersRef' = consumersRef
         /\ participants' = participants
         /\ consumerTransportRef' = consumerTransportRef
         /\ creatingConsumerTransportRef' = creatingConsumerTransportRef
         /\ transports' = transports
         /\ rc' = rc
         /\ \A d \in DOMAIN calls \ {c} : calls'[d] = calls[d]]_vars

\* C17 witness: one announcement's consume has returned an error, and an
\* earlier and a later announcement were consumed to completion.
C17_Witness ==
  \E c \in DOMAIN calls :
    /\ calls[c].pc = "consumeErr"
    /\ c \notin consumersRef
    /\ \E c0, c1 \in DOMAIN calls :
         /\ calls[c0].ann < calls[c].ann /\ calls[c].ann < calls[c1].ann
         /\ calls[c0].pc = "done" /\ calls[c1].pc = "done"
         /\ {c0, c1} \subseteq consumersRef

\* C18: a consume resolving for participant p does not re-create p's entry
\* when p's entry was removed by peerDisconnected after the announcement of
\* that consume had arrived. (A later announcement of p is registered while
\* p has no entry and the session's socket is still connected: p's entry was
\* removed by peerDisconnected after that later announcement was consumed.)
C18_InFlightConsumeDoesNotRecreate ==
  [][\A c \in DOMAIN calls :
       consumed(c) =>
         ~ /\ UserOf(calls, c) \notin DOMAIN participants
           /\ calls[c].sock \in sockets
           /\ \E d \in consumersRef :
                /\ UserOf(calls, d) = UserOf(calls, c)
                /\ calls[d].sock = calls[c].sock
                /\ calls[d].ann > calls[c].ann]_vars

\* C19: every call that has emitted a consume request, or has gone on to
\* instantiate a consumer, sees an inbound transport handle and a clear
\* creation flag.
C19_ConsumeHasInboundTransport ==
  \A c \in DOMAIN calls :
    WentOnToConsume(c) => consumerTransportRef # 0 /\ ~creatingConsumerTransportRef

\* C19 witness: a call that waited on the creation flag and a call that
\* created the transport have both instantiated their consumers.
C19_Witness ==
  \E c, d \in consumersRef :
    /\ calls[c].creator /\ ~calls[d].creator
    /\ calls[c].pc = "done" /\ calls[d].pc = "done"
    /\ calls[c].tr = consumerTransportRef /\ calls[d].tr = consumerTransportRef

\* C20: after a peerDisconnected notification for p no consumer of p's
\* producers is left in the consumer registry.
C20_PeerDisconnectDropsConsumers ==
  [][\A s \in 1..MaxSessions, u \in Users :
       peerDisconnected(s, u) =>
         \A c \in consumersRef' : UserOf(calls', c) # u]_vars

\* ------------------------------------------------------------- scheduling
\* The event loop runs every timer that is due and every microtask that is
\* queued: the 100 ms timer of the polling loop and the continuation of the
\* drain loop are taken whenever they stay runnable. Nothing is assumed about
\* the server's acknowledgements or the user's clicks.
MaxCalls == 3

Fairness ==
  /\ \A c \in 1..MaxCalls : WF_vars(c \in DOMAIN calls /\ pollWake(c))
  /\ \A r \in 1..MaxRC : WF_vars(r \in DOMAIN rc /\ drain(r))

\* the announcement of a remote producer the server has not announced yet
FreshRemote(u, k) ==
  /\ u # Local
  /\ \A a \in DOMAIN anns : <<anns[a].user, anns[a].kind>> # <<u, k>>

\* One broadcast session with a server that announces each remote producer
\* once: the steps of Next, with startBroadcast taken only while no socket
\* was opened and newProducer only for a producer not announced before.
NextSession ==
  \/ connect
  \/ disconnect
  \/ nSockets = 0 /\ startBroadcast
  \/ startBroadcastMedia
  \/ startBroadcastNoMedia
  \/ stopBroadcast
  \/ \E s \in 1..MaxSessions : routerCapabilities(s)
  \/ \E r \in DOMAIN rc : deviceLoaded(r)
  \/ \E r \in DOMAIN rc : deviceLoadFailed(r)
  \/ \E r \in DOMAIN rc : producerTransportCreated(r)
  \/ \E r \in DOMAIN rc : producerTransportError(r)
  \/ \E r \in DOMAIN rc : videoProduced(r)
  \/ \E r \in DOMAIN rc : audioProduced(r)
  \/ \E r \in DOMAIN rc : produceFailed(r)
  \/ \E r \in DOMAIN rc : drain(r)
  \/ \E s \in 1..MaxSessions, u \in Users, k \in Kinds :
       FreshRemote(u, k) /\ newProducer(s, u, k)
  \/ \E c \in DOMAIN calls : consumerTransportCreated(c)
  \/ \E c \in DOMAIN calls : consumerTransportError(c)
  \/ \E c \in DOMAIN calls : pollWake(c)
  \/ \E c \in DOMAIN calls : consumeResponse(c)
  \/ \E c \in DOMAIN calls : consumeError(c)
  \/ \E c \in DOMAIN calls : consumed(c)
  \/ \E c \in DOMAIN calls : consumeFailed(c)
  \/ \E s \in 1..MaxSessions, u \in Users : peerDisconnected(s, u)

SpecFair == Init /\ [][NextSession]_vars /\ Fairness

\* the call c polls the creation flag after the creation has succeeded
WaitsAfterCreation(c) ==
  /\ c \in DOMAIN calls
  /\ calls[c].pc = "wait"
  /\ consumerTransportRef # 0 /\ ~creatingConsumerTransportRef

\* the session the call belongs to is still up
SessionLive == socketRef # 0 /\ deviceRef \in loaded

\* C15: under fair scheduling, once the inbound transport has been created
\* every call that found the creation flag set leaves its wait and issues
\* its consume request, as long as the session is not torn down or
\* renegotiated under it.
C15_WaitersEventuallyConsume ==
  \A c \in 1..MaxCalls :
    WaitsAfterCreation(c) ~> ((c \in DOMAIN calls /\ WentOnToConsume(c)) \/ ~SessionLive)

\* C15 witness: three announcements arrived with no inbound transport: the
\* first created it, the other two found the flag set. The creation has
\* succeeded; the creator and the first waiter have a registered consumer on
\* the one transport and the last waiter is about to leave its wait.
C15_Witness ==
  /\ nSockets = 1 /\ Len(calls) = 3 /\ Len(transports) = 1
  /\ \A c \in 1..3 : calls[c].via = "live"
  /\ calls[1].creator /\ ~calls[2].creator /\ ~calls[3].creator
  /\ \A c \in 1..2 : calls[c].pc = "done" /\ c \in consumersRef /\ calls[c].tr = 1
  /\ WaitsAfterCreation(3) /\ SessionLive

====
